---- MODULE Spec2Model ----
(***************************************************************************)
(* A model of src/imitation/scripts/train_adversarial.py: one call of      *)
(* train_adversarial, from its argument checks to its return value.        *)
(*                                                                         *)
(* Python strings that the code compares, lower-cases or formats are       *)
(* sequences of one-character strings, so that str.lower() and the         *)
(* "05d" format are computed rather than assumed.  A Python dict is a      *)
(* sequence of <<key, value>> pairs with distinct keys, in insertion       *)
(* order.  An Optional[int] is <<>> (None) or <<n>>.                       *)
(***************************************************************************)
EXTENDS Integers, Sequences, FiniteSets, TLC

(***************************************************************************)
(* Bounds of the inputs.                                                   *)
(***************************************************************************)
MaxNumVec == 2
MaxBatch == 3
MaxTrajs == 2
MaxInterval == 2
MaxRounds == 3

(***************************************************************************)
(* Strings.                                                                *)
(***************************************************************************)
UpperCase ==
    <<"A","B","C","D","E","F","G","H","I","J","K","L","M",
      "N","O","P","Q","R","S","T","U","V","W","X","Y","Z">>

LowerCase ==
    <<"a","b","c","d","e","f","g","h","i","j","k","l","m",
      "n","o","p","q","r","s","t","u","v","w","x","y","z">>

LowerChar(c) ==
    IF \E i \in DOMAIN UpperCase : UpperCase[i] = c
    THEN LowerCase[CHOOSE i \in DOMAIN UpperCase : UpperCase[i] = c]
    ELSE c

\* str.lower()
lower(s) == [i \in 1..Len(s) |-> LowerChar(s[i])]

STR_shared == <<"s","h","a","r","e","d">>
STR_gail == <<"g","a","i","l">>
STR_airl == <<"a","i","r","l">>
STR_final == <<"f","i","n","a","l">>
STR_ppo == <<"p","p","o">>

\* the algorithm strings a run is started with
AlgorithmInputs ==
    { STR_gail, <<"G","A","I","L">>, STR_airl, <<"A","i","r","l">>,
      STR_shared, <<"b","c">> }

(***************************************************************************)
(* Python dicts of keyword arguments.                                      *)
(***************************************************************************)
ParamKeys == {"lr", "bs"}
ParamValues == {1, 2}

Keys(m) == { m[i][1] : i \in DOMAIN m }

Items(m) == { m[i] : i \in DOMAIN m }

IsDict(m) == \A i, j \in DOMAIN m : m[i][1] = m[j][1] => i = j

Dicts ==
    { m \in UNION { [1..n -> ParamKeys \X ParamValues] : n \in 0..Cardinality(ParamKeys) } :
        IsDict(m) }

\* Mapping.get(key, {})
get(kw, key) == IF key \in DOMAIN kw THEN kw[key] ELSE <<>>

\* every Mapping[str, Mapping] whose keys are among ks and whose values are among ms
KwargsOver(ks, ms) == UNION { [D -> ms] : D \in SUBSET ks }

(***************************************************************************)
(* The conditions and conversions of train_adversarial, as operators.      *)
(***************************************************************************)
BatchNotDivisible_Swapped(batch, nvec) == nvec % batch # 0

\* line 158: gen_batch_size % num_vec != 0 (both positive here)
BatchNotDivisible(batch, nvec) == batch % nvec # 0

allowed_keys == {STR_shared, STR_gail, STR_airl}

HasUnsupportedKey_Superset(kw) == ~(allowed_keys \subseteq DOMAIN kw)

\* line 164: not algorithm_kwargs.keys() <= allowed_keys
HasUnsupportedKey(kw) == ~(DOMAIN kw \subseteq allowed_keys)

Min(a, b) == IF a < b THEN a ELSE b

Max(a, b) == IF a > b THEN a ELSE b

\* s[:n], Python's slice: a negative n counts from the end
SliceTo(s, n) ==
    IF n >= 0 THEN SubSeq(s, 1, Min(n, Len(s)))
    ELSE SubSeq(s, 1, Max(Len(s) + n, 0))

PathMissing_Never(exists) == FALSE

\* line 170: not os.path.exists(rollout_path)
PathMissing(exists) == ~exists

TooFewTrajs_OffByOne(trajs, n) == Len(trajs) + 1 < n

\* line 175: len(expert_trajs) < n_expert_demos
TooFewTrajs(trajs, n) == Len(trajs) < n

LimitTo_Last(trajs, demos) ==
    IF demos = <<>> THEN trajs
    ELSE SubSeq(trajs, Len(trajs) - demos[1] + 1, Len(trajs))

\* lines 174-180, when no error is raised: demos is <<>> for None, else <<n>>
LimitTo(trajs, demos) ==
    IF demos = <<>> THEN trajs ELSE SliceTo(trajs, demos[1])

\* dict(**a, **b), lines 224-227: the call fails with a TypeError naming the
\* first key of b (in b's order) that a has too; otherwise a's items then b's
FirstDuplicate(a, b) ==
    LET dups == { i \in DOMAIN b : b[i][1] \in Keys(a) }
    IN  IF dups = {} THEN <<>>
        ELSE <<b[CHOOSE i \in dups : \A j \in dups : i <= j][1]>>

DictMerge(a, b) ==
    [dup |-> FirstDuplicate(a, b),
     value |-> IF FirstDuplicate(a, b) = <<>> THEN a \o b ELSE <<>>]

\* lines 238-243: the class chosen, "none" when the ValueError is raised
SelectAlgoCls(alg) ==
    IF lower(alg) = STR_gail THEN "GAIL"
    ELSE IF lower(alg) = STR_airl THEN "AIRL"
    ELSE "none"

ShouldCheckpoint_OffByOne(interval, round) ==
    interval > 0 /\ (round + 1) % interval = 0

\* line 263: the condition of callback(round_num)
ShouldCheckpoint(interval, round) == interval > 0 /\ round % interval = 0

ShouldCheckpointFinal_Positive(interval) == interval > 0

\* line 269
ShouldCheckpointFinal(interval) == interval >= 0

PadWidth == 5

DigitChars == <<"0","1","2","3","4","5","6","7","8","9">>

RECURSIVE Decimal(_)
Decimal(n) ==
    IF n < 10 THEN <<DigitChars[n + 1]>>
    ELSE Decimal(n \div 10) \o <<DigitChars[(n % 10) + 1]>>

\* the name as it would be if the format kept only its last PadWidth digits
Format05d_Truncated(n) ==
    LET d == Decimal(n)
    IN  IF Len(d) >= PadWidth THEN SubSeq(d, Len(d) - PadWidth + 1, Len(d))
        ELSE [i \in 1..(PadWidth - Len(d)) |-> "0"] \o d

\* f"{round_num:05d}" for round_num >= 0
Format05d(n) ==
    LET d == Decimal(n)
    IN  IF Len(d) >= PadWidth THEN d
        ELSE [i \in 1..(PadWidth - Len(d)) |-> "0"] \o d

(***************************************************************************)
(* State.  The first nine variables are the arguments of the call and the  *)
(* file at rollout_path; the call never changes them.                      *)
(***************************************************************************)
VARIABLES
    algorithm,              \* str
    num_vec,                \* int
    gen_batch_size,         \* int
    algorithm_kwargs,       \* Mapping[str, Mapping]
    rollout_exists,         \* os.path.exists(rollout_path)
    stored_trajs,           \* what types.load(rollout_path) returns
    n_expert_demos,         \* Optional[int]
    checkpoint_interval,    \* int
    n_rounds,               \* the rounds trainer.train(total_timesteps, ...) runs
    pc,                     \* the statement the call is at
    error,                  \* the exception the call raised, "none" if none
    error_keys,             \* the keys the exception's message names
    expert_trajs,           \* local expert_trajs
    final_algorithm_kwargs, \* local final_algorithm_kwargs
    algo_cls,               \* local algo_cls
    trainer,                \* the class of the trainer constructed
    round_num,              \* the next round of trainer.train
    saves,                  \* the checkpoint directories save() wrote, in order
    events,                 \* the calls with an effect outside the function, in order
    venv,                   \* "none", "open" or "closed"
    results                 \* the keys of the mapping returned

(***************************************************************************)
(* State of a call of expert_demos.py: rollouts_and_policy or              *)
(* rollouts_from_policy.  The first seven variables are its arguments.     *)
(***************************************************************************)
VARIABLES
    ed_script,                  \* the function called
    rollout_save_n_timesteps,   \* Optional[int]
    rollout_save_n_episodes,    \* Optional[int]
    policy_save_interval,       \* int
    policy_save_final,          \* bool
    rollout_save_final,         \* bool
    reward_type,                \* Optional[str]: <<>> or <<name>>
    ed_pc,                      \* the statement the call is at
    ed_error,                   \* the exception the call raised, "none" if none
    ed_events,                  \* the calls with an effect outside the function, in order
    ed_saved,                   \* the files and directories saved under log_dir, in order
    callback_objs,              \* local callback_objs
    sample_until                \* local sample_until: <<>> until it is made

ed_args ==
    <<ed_script, rollout_save_n_timesteps, rollout_save_n_episodes,
      policy_save_interval, policy_save_final, rollout_save_final, reward_type>>

ed_vars ==
    <<ed_args, ed_pc, ed_error, ed_events, ed_saved, callback_objs, sample_until>>

args ==
    <<algorithm, num_vec, gen_batch_size, algorithm_kwargs, rollout_exists,
      stored_trajs, n_expert_demos, checkpoint_interval, n_rounds>>

locals ==
    <<expert_trajs, final_algorithm_kwargs, algo_cls, trainer, round_num,
      saves, venv, results>>

ta_vars == <<args, pc, error, error_keys, locals, events>>

(***************************************************************************)
(* State of a call of rollout.generate_trajectories(policy, venv,          *)
(* sample_until), the collection both scripts run for their evaluation     *)
(* and rollouts_and_policy for its final rollouts.  venv has num_vec       *)
(* environments, stepped together.                                         *)
(***************************************************************************)
VARIABLES
    gt_pc,                  \* "idle", "collecting" or "returned"
    gt_sample_until,        \* the criterion passed: [kind, n]
    max_episode_steps,      \* no episode of an environment is longer
    fixed_horizon,          \* every episode has exactly max_episode_steps steps
    env_steps,              \* per environment: steps taken since its last reset
    partial,                \* per environment: transitions accumulated, not yet returned
    trajectories            \* the trajectories completed, in order

col_vars ==
    <<gt_pc, gt_sample_until, max_episode_steps, fixed_horizon, env_steps,
      partial, trajectories>>

vars == <<ta_vars, ed_vars, col_vars>>

(***************************************************************************)
(* The calls checked.  Three families of arguments: the whole run with     *)
(* every argument varied over a few values, the demonstrations and         *)
(* n_expert_demos over all their values, and algorithm_kwargs over all     *)
(* its values.                                                             *)
(***************************************************************************)
EmptyKwargs == [k \in {} |-> <<>>]

FlowKwargs ==
    { EmptyKwargs,
      [k \in {STR_shared} |-> <<<<"lr", 1>>>>],
      [k \in {STR_shared, STR_gail} |-> <<<<"lr", 1>>>>],
      [k \in {STR_shared, STR_airl} |->
          IF k = STR_shared THEN <<<<"lr", 1>>>> ELSE <<<<"bs", 2>>>>],
      [k \in {STR_gail, STR_ppo} |-> <<>>] }

TrajSeqs == UNION { [1..n -> 1..MaxTrajs] : n \in 0..MaxTrajs }

DemoCounts == {<<>>} \cup { <<n>> : n \in (-1)..(MaxTrajs + 1) }

InitArgsFlow ==
    /\ algorithm \in AlgorithmInputs
    /\ num_vec \in 1..MaxNumVec
    /\ gen_batch_size \in 1..MaxBatch
    /\ algorithm_kwargs \in FlowKwargs
    /\ rollout_exists \in BOOLEAN
    /\ stored_trajs = [i \in 1..MaxTrajs |-> i]
    /\ n_expert_demos \in {<<>>, <<MaxTrajs>>, <<MaxTrajs + 1>>}
    /\ checkpoint_interval \in (-1)..MaxInterval
    /\ n_rounds \in 0..MaxRounds

InitArgsDemos ==
    /\ algorithm = STR_gail
    /\ num_vec = 1
    /\ gen_batch_size = MaxBatch
    /\ algorithm_kwargs = EmptyKwargs
    /\ rollout_exists = TRUE
    /\ stored_trajs \in TrajSeqs
    /\ n_expert_demos \in DemoCounts
    /\ checkpoint_interval = 1
    /\ n_rounds = 1

InitArgsMerge ==
    /\ algorithm \in AlgorithmInputs
    /\ num_vec = 1
    /\ gen_batch_size = MaxBatch
    /\ algorithm_kwargs \in KwargsOver(allowed_keys, Dicts)
    /\ rollout_exists = TRUE
    /\ stored_trajs = [i \in 1..MaxTrajs |-> i]
    /\ n_expert_demos = <<>>
    /\ checkpoint_interval = 0
    /\ n_rounds = 1

\* valid arguments, over the checkpoint interval and the number of rounds
InitArgsCheckpoints ==
    /\ algorithm = STR_gail
    /\ num_vec = 1
    /\ gen_batch_size = MaxBatch
    /\ algorithm_kwargs = EmptyKwargs
    /\ rollout_exists = TRUE
    /\ stored_trajs = [i \in 1..MaxTrajs |-> i]
    /\ n_expert_demos = <<>>
    /\ checkpoint_interval \in (-1)..MaxInterval
    /\ n_rounds \in 0..MaxRounds

\* the entry of a call of train_adversarial
InitTrainAdversarial ==
    /\ pc = "check_batch"
    /\ error = "none"
    /\ error_keys = {}
    /\ expert_trajs = <<>>
    /\ final_algorithm_kwargs = <<>>
    /\ algo_cls = "none"
    /\ trainer = "none"
    /\ round_num = 0
    /\ saves = <<>>
    /\ events = <<>>
    /\ venv = "none"
    /\ results = {}

\* the arguments of a call of rollouts_and_policy and of rollouts_from_policy
MaxCount == 2

Counts == {<<>>} \cup { <<n>> : n \in 0..MaxCount }

InitArgsRolloutsAndPolicy ==
    /\ ed_script = "rollouts_and_policy"
    /\ rollout_save_n_timesteps \in Counts
    /\ rollout_save_n_episodes \in Counts
    /\ policy_save_interval \in (-1)..MaxInterval
    /\ policy_save_final \in BOOLEAN
    /\ rollout_save_final \in BOOLEAN
    /\ reward_type \in {<<>>, <<"RewardNet_shaped">>}

InitArgsRolloutsFromPolicy ==
    /\ ed_script = "rollouts_from_policy"
    /\ rollout_save_n_timesteps \in Counts
    /\ rollout_save_n_episodes \in Counts
    /\ policy_save_interval = 0
    /\ policy_save_final = FALSE
    /\ rollout_save_final = FALSE
    /\ reward_type = <<>>

\* the entry of a call of expert_demos.py
InitExpertDemosEntry ==
    /\ ed_pc = "makedirs"
    /\ ed_error = "none"
    /\ ed_events = <<>>
    /\ ed_saved = <<>>
    /\ callback_objs = <<>>
    /\ sample_until = <<>>

\* no collection is run
InitCollectorIdle ==
    /\ gt_pc = "idle"
    /\ gt_sample_until = [kind |-> "none", n |-> 0]
    /\ max_episode_steps = 1
    /\ fixed_horizon = TRUE
    /\ env_steps = <<>>
    /\ partial = <<>>
    /\ trajectories = <<>>

\* a call of train_adversarial; expert_demos.py is not run
Init ==
    /\ InitCollectorIdle
    /\ InitArgsFlow \/ InitArgsDemos \/ InitArgsMerge
    /\ InitTrainAdversarial
    /\ InitArgsRolloutsAndPolicy
    /\ rollout_save_n_timesteps = <<MaxCount>> /\ rollout_save_n_episodes = <<>>
    /\ policy_save_interval = 0 /\ policy_save_final /\ rollout_save_final
    /\ reward_type = <<>>
    /\ InitExpertDemosEntry

(***************************************************************************)
(* The statements of train_adversarial.                                    *)
(***************************************************************************)
\* an exception that is swallowed: the statement is tried again
Raise_Retry(e, keys) ==
    /\ pc' = pc
    /\ error' = e
    /\ error_keys' = keys

\* raise: the call ends with the exception
Raise(e, keys) ==
    /\ pc' = "failed"
    /\ error' = e
    /\ error_keys' = keys

Goto(next) ==
    /\ pc' = next
    /\ UNCHANGED <<error, error_keys>>

\* lines 158-161
CheckBatch ==
    /\ pc = "check_batch"
    /\ IF BatchNotDivisible(gen_batch_size, num_vec)
       THEN Raise("ValueError:gen_batch_size", {})
       ELSE Goto("check_keys")
    /\ UNCHANGED <<col_vars, ed_vars, args, locals, events>>

\* lines 163-168
CheckKeys ==
    /\ pc = "check_keys"
    /\ IF HasUnsupportedKey(algorithm_kwargs)
       THEN Raise("ValueError:algorithm_kwargs", {})
       ELSE Goto("check_path")
    /\ UNCHANGED <<col_vars, ed_vars, args, locals, events>>

\* lines 170-171
CheckPath ==
    /\ pc = "check_path"
    /\ events' = Append(events, "os.path.exists")
    /\ IF PathMissing(rollout_exists)
       THEN Raise("FileNotFoundError:rollout_path", {})
       ELSE Goto("load")
    /\ UNCHANGED <<col_vars, ed_vars, args, locals>>

\* lines 173-181
LoadDemos ==
    /\ pc = "load"
    /\ events' = Append(events, "types.load")
    /\ IF n_expert_demos # <<>> /\ TooFewTrajs(stored_trajs, n_expert_demos[1])
       THEN /\ Raise("ValueError:n_expert_demos", {})
            /\ expert_trajs' = stored_trajs
       ELSE /\ Goto("setup")
            /\ expert_trajs' = LimitTo(stored_trajs, n_expert_demos)
    /\ UNCHANGED <<col_vars, ed_vars, args, final_algorithm_kwargs, algo_cls, trainer, round_num,
                   saves, venv, results>>

\* lines 183-220: the logger, the log directory, the environments, the generator
\* (the optional wandb writer and video recorder change none of the state below)
Setup ==
    /\ pc = "setup"
    /\ events' = events \o <<"logger.configure", "os.makedirs",
                             "build_sacred_symlink", "make_vec_env", "init_rl">>
    /\ venv' = "open"
    /\ Goto("merge")
    /\ UNCHANGED <<col_vars, ed_vars, args, expert_trajs, final_algorithm_kwargs, algo_cls, trainer,
                   round_num, saves, results>>

\* lines 222-227
MergeKwargs ==
    /\ pc = "merge"
    /\ LET algorithm_kwargs_shared == get(algorithm_kwargs, STR_shared)
           algorithm_kwargs_algo == get(algorithm_kwargs, algorithm)
           merged == DictMerge(algorithm_kwargs_shared, algorithm_kwargs_algo)
       IN  IF merged.dup # <<>>
           THEN /\ Raise("TypeError:multiple_values", {merged.dup[1]})
                /\ UNCHANGED final_algorithm_kwargs
           ELSE /\ Goto("select")
                /\ final_algorithm_kwargs' = merged.value
    /\ UNCHANGED <<col_vars, ed_vars, args, expert_trajs, algo_cls, trainer, round_num, saves, venv,
                   results, events>>

\* lines 229-243
SelectAlgorithm ==
    /\ pc = "select"
    /\ algo_cls' = SelectAlgoCls(algorithm)
    /\ IF SelectAlgoCls(algorithm) = "none"
       THEN Raise("ValueError:algorithm", {})
       ELSE Goto("construct")
    /\ UNCHANGED <<col_vars, ed_vars, args, expert_trajs, final_algorithm_kwargs, trainer, round_num,
                   saves, venv, results, events>>

\* lines 245-260
ConstructTrainer ==
    /\ pc = "construct"
    /\ trainer' = algo_cls
    /\ events' = Append(events, "algo_cls")
    /\ Goto("train")
    /\ UNCHANGED <<col_vars, ed_vars, args, expert_trajs, final_algorithm_kwargs, algo_cls, round_num,
                   saves, venv, results>>

\* the callback as it would be with the wrong variable in the directory name
TrainRound_WrongDir ==
    /\ pc = "train"
    /\ round_num < n_rounds
    /\ saves' = IF ShouldCheckpoint(checkpoint_interval, round_num)
                THEN Append(saves, Format05d(checkpoint_interval))
                ELSE saves
    /\ round_num' = round_num + 1
    /\ pc' = "train"
    /\ UNCHANGED <<error, error_keys>>
    /\ UNCHANGED <<col_vars, ed_vars, args, expert_trajs, final_algorithm_kwargs, algo_cls, trainer,
                   venv, results, events>>

\* line 266, one round of trainer.train, which ends by calling
\* callback(round_num), lines 262-264
TrainRound ==
    /\ pc = "train"
    /\ round_num < n_rounds
    /\ saves' = IF ShouldCheckpoint(checkpoint_interval, round_num)
                THEN Append(saves, Format05d(round_num))
                ELSE saves
    /\ round_num' = round_num + 1
    /\ Goto("train")
    /\ UNCHANGED <<col_vars, ed_vars, args, expert_trajs, final_algorithm_kwargs, algo_cls, trainer,
                   venv, results, events>>

\* line 266: trainer.train returns after its last round
TrainReturn ==
    /\ pc = "train"
    /\ round_num = n_rounds
    /\ Goto("save_final")
    /\ UNCHANGED <<col_vars, ed_vars, args, locals, events>>

\* line 266: trainer.train raises in the round it is in
TrainFail ==
    /\ pc = "train"
    /\ round_num < n_rounds
    /\ Raise("Exception:train", {})
    /\ UNCHANGED <<col_vars, ed_vars, args, locals, events>>

\* lines 268-270
SaveFinal ==
    /\ pc = "save_final"
    /\ saves' = IF ShouldCheckpointFinal(checkpoint_interval)
                THEN Append(saves, STR_final)
                ELSE saves
    /\ Goto("evaluate")
    /\ UNCHANGED <<col_vars, ed_vars, args, expert_trajs, final_algorithm_kwargs, algo_cls, trainer,
                   round_num, venv, results, events>>

\* the evaluation as it would be if it ran before lines 268-270
Evaluate_BeforeFinalSave ==
    /\ pc = "save_final"
    /\ events' = Append(events, "generate_trajectories")
    /\ results' = {"expert_stats", "imit_stats"}
    /\ pc' = "close"
    /\ UNCHANGED <<error, error_keys>>
    /\ UNCHANGED <<col_vars, ed_vars, args, expert_trajs, final_algorithm_kwargs, algo_cls, trainer,
                   round_num, saves, venv>>

\* lines 272-281
Evaluate ==
    /\ pc = "evaluate"
    /\ events' = Append(events, "generate_trajectories")
    /\ results' = {"expert_stats", "imit_stats"}
    /\ Goto("close")
    /\ UNCHANGED <<col_vars, ed_vars, args, expert_trajs, final_algorithm_kwargs, algo_cls, trainer,
                   round_num, saves, venv>>

\* lines 274-281: rollout.generate_trajectories or rollout.rollout_stats raises
EvaluateFail ==
    /\ pc = "evaluate"
    /\ Raise("Exception:evaluate", {})
    /\ UNCHANGED <<col_vars, ed_vars, args, locals, events>>

\* lines 283-285
Return ==
    /\ pc = "close"
    /\ venv' = "closed"
    /\ Goto("done")
    /\ UNCHANGED <<col_vars, ed_vars, args, expert_trajs, final_algorithm_kwargs, algo_cls, trainer,
                   round_num, saves, results, events>>

Next ==
    \/ CheckBatch
    \/ CheckKeys
    \/ CheckPath
    \/ LoadDemos
    \/ Setup
    \/ MergeKwargs
    \/ SelectAlgorithm
    \/ ConstructTrainer
    \/ TrainRound
    \/ TrainReturn
    \/ TrainFail
    \/ SaveFinal
    \/ Evaluate
    \/ EvaluateFail
    \/ Return

Spec == Init /\ [][Next]_vars

(***************************************************************************)
(* The checkpoint directories of a long run.  trainer.train calls callback *)
(* with a round number that only grows; the rounds followed are the first, *)
(* those where the decimal number gets its second digit, and those where   *)
(* it gets its PadWidth-th digit and each digit after, up to MaxDigits.    *)
(***************************************************************************)
MaxDigits == 6

RECURSIVE Pow10(_)
Pow10(k) == IF k = 0 THEN 1 ELSE 10 * Pow10(k - 1)

Rounds ==
    {0} \cup UNION { {Pow10(k) - 1, Pow10(k)} :
                        k \in {1} \cup ((PadWidth - 1)..MaxDigits) }

\* lines 262-266: callback(r), for a round r not before round_num
TrainRoundAt(r) ==
    /\ pc = "train"
    /\ round_num <= r /\ r < n_rounds
    /\ saves' = IF ShouldCheckpoint(checkpoint_interval, r)
                THEN Append(saves, Format05d(r))
                ELSE saves
    /\ round_num' = r + 1
    /\ Goto("train")
    /\ UNCHANGED <<col_vars, ed_vars, args, expert_trajs, final_algorithm_kwargs, algo_cls, trainer,
                   venv, results, events>>

NextCheckpoints ==
    \/ CheckBatch
    \/ CheckKeys
    \/ CheckPath
    \/ LoadDemos
    \/ Setup
    \/ MergeKwargs
    \/ SelectAlgorithm
    \/ ConstructTrainer
    \/ \E r \in Rounds : TrainRoundAt(r)
    \/ TrainReturn
    \/ SaveFinal

\* a call of train_adversarial with valid arguments whose training runs
\* until the round after the last of Rounds
InitCheckpoints ==
    /\ InitCollectorIdle
    /\ algorithm = STR_gail
    /\ num_vec = 1
    /\ gen_batch_size = MaxBatch
    /\ algorithm_kwargs = EmptyKwargs
    /\ rollout_exists = TRUE
    /\ stored_trajs = [i \in 1..MaxTrajs |-> i]
    /\ n_expert_demos = <<>>
    /\ checkpoint_interval \in (-1)..MaxInterval
    /\ n_rounds = Pow10(MaxDigits) + 1
    /\ InitTrainAdversarial
    /\ InitArgsRolloutsAndPolicy
    /\ rollout_save_n_timesteps = <<MaxCount>> /\ rollout_save_n_episodes = <<>>
    /\ policy_save_interval = 0 /\ policy_save_final /\ rollout_save_final
    /\ reward_type = <<>>
    /\ InitExpertDemosEntry

SpecCheckpoints == InitCheckpoints /\ [][NextCheckpoints]_vars

(***************************************************************************)
(* expert_demos.py.                                                        *)
(***************************************************************************)
\* rollout.make_sample_until(n_timesteps, n_episodes): <<>> when it raises
\* (neither or both counts given, or a count that is not positive), else the
\* criterion made
MakeSampleUntil(n_timesteps, n_episodes) ==
    IF (n_timesteps = <<>>) = (n_episodes = <<>>) THEN <<>>
    ELSE IF n_timesteps # <<>>
         THEN IF n_timesteps[1] <= 0 THEN <<>>
              ELSE <<[kind |-> "min_timesteps", n |-> n_timesteps[1]]>>
         ELSE IF n_episodes[1] <= 0 THEN <<>>
              ELSE <<[kind |-> "min_episodes", n |-> n_episodes[1]]>>

RegistersSaveCallback_NonNegative(interval) == interval >= 0

\* expert_demos.py line 169
RegistersSaveCallback(interval) == interval > 0

EdRaise(e) ==
    /\ ed_pc' = "failed"
    /\ ed_error' = e

EdGoto(next) ==
    /\ ed_pc' = next
    /\ UNCHANGED ed_error

\* rollouts_and_policy, lines 103-104
RP_Makedirs ==
    /\ ed_script = "rollouts_and_policy" /\ ed_pc = "makedirs"
    /\ ed_events' = ed_events \o <<"os.makedirs", "build_sacred_symlink">>
    /\ EdGoto("sample_until")
    /\ UNCHANGED <<col_vars, ta_vars, ed_args, ed_saved, callback_objs, sample_until>>

\* lines 106-110
RP_SampleUntil ==
    /\ ed_script = "rollouts_and_policy" /\ ed_pc = "sample_until"
    /\ LET made == MakeSampleUntil(rollout_save_n_timesteps, rollout_save_n_episodes)
       IN  IF made = <<>>
           THEN EdRaise("ValueError:make_sample_until") /\ UNCHANGED sample_until
           ELSE EdGoto("logger") /\ sample_until' = made
    /\ UNCHANGED <<col_vars, ta_vars, ed_args, ed_events, ed_saved, callback_objs>>

\* lines 112-130
RP_Logger ==
    /\ ed_script = "rollouts_and_policy" /\ ed_pc = "logger"
    /\ ed_events' = ed_events \o
          <<"logger.configure", "os.makedirs:rollouts", "os.makedirs:policies">>
    /\ EdGoto("make_env")
    /\ UNCHANGED <<col_vars, ta_vars, ed_args, ed_saved, callback_objs, sample_until>>

\* lines 132-167: the environments, and the log callback of a reward wrapper
RP_MakeEnv ==
    /\ ed_script = "rollouts_and_policy" /\ ed_pc = "make_env"
    /\ ed_events' = Append(ed_events, "make_vec_env")
    /\ callback_objs' = IF reward_type # <<>> THEN <<"log_callback">> ELSE <<>>
    /\ EdGoto("callbacks")
    /\ UNCHANGED <<col_vars, ta_vars, ed_args, ed_saved, sample_until>>

\* lines 169-176
RP_Callbacks ==
    /\ ed_script = "rollouts_and_policy" /\ ed_pc = "callbacks"
    /\ callback_objs' = IF RegistersSaveCallback(policy_save_interval)
                        THEN Append(callback_objs, "save_policy_callback")
                        ELSE callback_objs
    /\ EdGoto("learn")
    /\ UNCHANGED <<col_vars, ta_vars, ed_args, ed_events, ed_saved, sample_until>>

\* lines 178-180: policy.learn returns
RP_Learn ==
    /\ ed_script = "rollouts_and_policy" /\ ed_pc = "learn"
    /\ ed_events' = ed_events \o <<"init_rl", "policy.learn">>
    /\ EdGoto("save_rollouts")
    /\ UNCHANGED <<col_vars, ta_vars, ed_args, ed_saved, callback_objs, sample_until>>

\* lines 178-180: policy.learn raises
RP_LearnFail ==
    /\ ed_script = "rollouts_and_policy" /\ ed_pc = "learn"
    /\ ed_events' = ed_events \o <<"init_rl", "policy.learn">>
    /\ EdRaise("Exception:learn")
    /\ UNCHANGED <<col_vars, ta_vars, ed_args, ed_saved, callback_objs, sample_until>>

\* lines 183-185
RP_SaveRollouts ==
    /\ ed_script = "rollouts_and_policy" /\ ed_pc = "save_rollouts"
    /\ IF rollout_save_final
       THEN /\ ed_events' = Append(ed_events, "rollout.rollout_and_save")
            /\ ed_saved' = Append(ed_saved, "rollouts/final.pkl")
       ELSE UNCHANGED <<ed_events, ed_saved>>
    /\ EdGoto("save_policy")
    /\ UNCHANGED <<col_vars, ta_vars, ed_args, callback_objs, sample_until>>

\* the final policy save as it would be if the interval decided it
RP_SavePolicy_ByInterval ==
    /\ ed_script = "rollouts_and_policy" /\ ed_pc = "save_policy"
    /\ IF policy_save_interval >= 0
       THEN /\ ed_events' = Append(ed_events, "serialize.save_stable_model")
            /\ ed_saved' = Append(ed_saved, "policies/final")
       ELSE UNCHANGED <<ed_events, ed_saved>>
    /\ EdGoto("evaluate")
    /\ UNCHANGED <<col_vars, ta_vars, ed_args, callback_objs, sample_until>>

\* lines 186-188
RP_SavePolicy ==
    /\ ed_script = "rollouts_and_policy" /\ ed_pc = "save_policy"
    /\ IF policy_save_final
       THEN /\ ed_events' = Append(ed_events, "serialize.save_stable_model")
            /\ ed_saved' = Append(ed_saved, "policies/final")
       ELSE UNCHANGED <<ed_events, ed_saved>>
    /\ EdGoto("evaluate")
    /\ UNCHANGED <<col_vars, ta_vars, ed_args, callback_objs, sample_until>>

\* lines 190-192
RP_Evaluate ==
    /\ ed_script = "rollouts_and_policy" /\ ed_pc = "evaluate"
    /\ ed_events' = Append(ed_events, "rollout.generate_trajectories")
    /\ EdGoto("return")
    /\ UNCHANGED <<col_vars, ta_vars, ed_args, ed_saved, callback_objs, sample_until>>

\* line 194
RP_Return ==
    /\ ed_script = "rollouts_and_policy" /\ ed_pc = "return"
    /\ EdGoto("done")
    /\ UNCHANGED <<col_vars, ta_vars, ed_args, ed_events, ed_saved, callback_objs, sample_until>>

\* rollouts_from_policy, lines 239-240
FP_Makedirs ==
    /\ ed_script = "rollouts_from_policy" /\ ed_pc = "makedirs"
    /\ ed_events' = ed_events \o <<"os.makedirs", "build_sacred_symlink">>
    /\ EdGoto("sample_until")
    /\ UNCHANGED <<col_vars, ta_vars, ed_args, ed_saved, callback_objs, sample_until>>

\* lines 242-245
FP_SampleUntil ==
    /\ ed_script = "rollouts_from_policy" /\ ed_pc = "sample_until"
    /\ LET made == MakeSampleUntil(rollout_save_n_timesteps, rollout_save_n_episodes)
       IN  IF made = <<>>
           THEN EdRaise("ValueError:make_sample_until") /\ UNCHANGED sample_until
           ELSE EdGoto("make_env") /\ sample_until' = made
    /\ UNCHANGED <<col_vars, ta_vars, ed_args, ed_events, ed_saved, callback_objs>>

\* lines 247-256
FP_MakeEnv ==
    /\ ed_script = "rollouts_from_policy" /\ ed_pc = "make_env"
    /\ ed_events' = Append(ed_events, "make_vec_env")
    /\ EdGoto("rollout")
    /\ UNCHANGED <<col_vars, ta_vars, ed_args, ed_saved, callback_objs, sample_until>>

\* lines 258-259
FP_Rollout ==
    /\ ed_script = "rollouts_from_policy" /\ ed_pc = "rollout"
    /\ ed_events' = ed_events \o <<"serialize.load_policy", "rollout.rollout_and_save">>
    /\ ed_saved' = Append(ed_saved, "rollout_save_path")
    /\ EdGoto("done")
    /\ UNCHANGED <<col_vars, ta_vars, ed_args, callback_objs, sample_until>>

NextRolloutsAndPolicy ==
    \/ RP_Makedirs
    \/ RP_SampleUntil
    \/ RP_Logger
    \/ RP_MakeEnv
    \/ RP_Callbacks
    \/ RP_Learn
    \/ RP_LearnFail
    \/ RP_SaveRollouts
    \/ RP_SavePolicy
    \/ RP_Evaluate
    \/ RP_Return

NextRolloutsFromPolicy ==
    \/ FP_Makedirs
    \/ FP_SampleUntil
    \/ FP_MakeEnv
    \/ FP_Rollout

\* a call of rollouts_and_policy or of rollouts_from_policy; train_adversarial
\* is not run
InitExpertDemos ==
    /\ InitCollectorIdle
    /\ InitArgsRolloutsAndPolicy \/ InitArgsRolloutsFromPolicy
    /\ InitExpertDemosEntry
    /\ InitArgsCheckpoints
    /\ checkpoint_interval = 0 /\ n_rounds = 0
    /\ InitTrainAdversarial

SpecExpertDemos ==
    InitExpertDemos /\ [][NextRolloutsAndPolicy \/ NextRolloutsFromPolicy]_vars

\* a call of train_adversarial and a call of rollouts_and_policy, each over
\* its checkpoint arguments, run side by side
InitScripts ==
    /\ InitCollectorIdle
    /\ InitArgsCheckpoints
    /\ InitTrainAdversarial
    /\ InitArgsRolloutsAndPolicy
    /\ rollout_save_n_timesteps = <<MaxCount>> /\ rollout_save_n_episodes = <<>>
    /\ reward_type = <<>>
    /\ InitExpertDemosEntry

SpecScripts == InitScripts /\ [][Next \/ NextRolloutsAndPolicy]_vars

(***************************************************************************)
(* rollout.generate_trajectories.  The environments are stepped together;  *)
(* every episode that ends on a step is added whole to the trajectories,   *)
(* in the order of the environments, and the collection stops as soon as   *)
(* the criterion holds of the trajectories.                                *)
(***************************************************************************)
MaxEpisodeSteps == 3

\* the deterministic environment of the end-to-end example: episodes of
\* exactly 10 steps, min_timesteps = 25
StubEpisodeSteps == 10

StubMinTimesteps == 25

\* rollout.make_min_episodes(n)
MakeMinEpisodes(n) == [kind |-> "min_episodes", n |-> n]

\* the criteria the scripts pass: sample_until of the final rollouts and
\* eval_sample_until of the evaluation
SampleUntils ==
    { MakeSampleUntil(t, ep)[1] :
        <<t, ep>> \in { c \in Counts \X Counts : MakeSampleUntil(c[1], c[2]) # <<>> } }
    \cup { MakeMinEpisodes(n) : n \in 1..MaxCount }

RECURSIVE Timesteps(_)
\* the transitions of a sequence of trajectories
Timesteps(trajs) ==
    IF trajs = <<>> THEN 0 ELSE trajs[1].len + Timesteps(Tail(trajs))

Satisfied_Strict(criterion, trajs) ==
    IF criterion.kind = "min_timesteps"
    THEN Timesteps(trajs) > criterion.n
    ELSE Len(trajs) > criterion.n

\* sample_until(trajectories)
Satisfied(criterion, trajs) ==
    IF criterion.kind = "min_timesteps"
    THEN Timesteps(trajs) >= criterion.n
    ELSE Len(trajs) >= criterion.n

RECURSIVE Finished_Truncated(_, _)
Finished_Truncated(dones, i) ==
    IF i > num_vec THEN <<>>
    ELSE (IF dones[i]
          THEN <<[len |-> partial[i], steps |-> env_steps[i] + 1]>>
          ELSE <<>>) \o Finished_Truncated(dones, i + 1)

RECURSIVE Finished(_, _)
\* the trajectories of the environments i.. whose episode ends on this step:
\* len is the number of transitions returned, steps the length of the episode
Finished(dones, i) ==
    IF i > num_vec THEN <<>>
    ELSE (IF dones[i]
          THEN <<[len |-> partial[i] + 1, steps |-> env_steps[i] + 1]>>
          ELSE <<>>) \o Finished(dones, i + 1)

\* the episodes that may end on the next step
Dones ==
    { dones \in [1..num_vec -> BOOLEAN] :
        \A i \in 1..num_vec :
            /\ env_steps[i] + 1 = max_episode_steps => dones[i]
            /\ fixed_horizon /\ dones[i] => env_steps[i] + 1 = max_episode_steps }

\* one pass of the loop: the criterion does not hold, every environment steps
GT_Step ==
    /\ gt_pc = "collecting"
    /\ ~Satisfied(gt_sample_until, trajectories)
    /\ \E dones \in Dones :
        /\ trajectories' = trajectories \o Finished(dones, 1)
        /\ env_steps' = [i \in 1..num_vec |-> IF dones[i] THEN 0 ELSE env_steps[i] + 1]
        /\ partial' = [i \in 1..num_vec |-> IF dones[i] THEN 0 ELSE partial[i] + 1]
    /\ UNCHANGED <<ta_vars, ed_vars, gt_pc, gt_sample_until, max_episode_steps,
                   fixed_horizon>>

\* the criterion holds: the trajectories are returned
GT_Return ==
    /\ gt_pc = "collecting"
    /\ Satisfied(gt_sample_until, trajectories)
    /\ gt_pc' = "returned"
    /\ UNCHANGED <<ta_vars, ed_vars, gt_sample_until, max_episode_steps,
                   fixed_horizon, env_steps, partial, trajectories>>

NextCollect ==
    \/ GT_Step
    \/ GT_Return

\* the environments of a collection: num_vec of them
InitArgsEnvs ==
    /\ algorithm = STR_gail
    /\ num_vec \in 1..MaxNumVec
    /\ gen_batch_size = num_vec
    /\ algorithm_kwargs = EmptyKwargs
    /\ rollout_exists = TRUE
    /\ stored_trajs = [i \in 1..MaxTrajs |-> i]
    /\ n_expert_demos = <<>>
    /\ checkpoint_interval = 0
    /\ n_rounds = 0

\* a collection starts: the environments are reset, nothing is accumulated
InitCollect ==
    /\ InitArgsEnvs
    /\ InitTrainAdversarial
    /\ InitArgsRolloutsFromPolicy
    /\ rollout_save_n_timesteps = <<MaxCount>> /\ rollout_save_n_episodes = <<>>
    /\ InitExpertDemosEntry
    /\ gt_pc = "collecting"
    /\ \/ /\ gt_sample_until \in SampleUntils
          /\ max_episode_steps \in 1..MaxEpisodeSteps
          /\ fixed_horizon \in BOOLEAN
       \/ /\ gt_sample_until = [kind |-> "min_timesteps", n |-> StubMinTimesteps]
          /\ max_episode_steps = StubEpisodeSteps
          /\ fixed_horizon = TRUE
    /\ env_steps = [i \in 1..num_vec |-> 0]
    /\ partial = [i \in 1..num_vec |-> 0]
    /\ trajectories = <<>>

\* the loop of the collection is run until it returns
SpecCollect == InitCollect /\ [][NextCollect]_vars /\ WF_vars(NextCollect)

(***************************************************************************)
(* Properties of a run.                                                    *)
(***************************************************************************)
Called(e) == \E i \in DOMAIN events : events[i] = e

Saved(path) == \E i \in DOMAIN saves : saves[i] = path

TimesSaved(path) == Cardinality({ i \in DOMAIN saves : saves[i] = path })

FinalDecided ==
    \/ pc \in {"evaluate", "close", "done"}
    \/ pc = "failed" /\ error = "Exception:evaluate"

\* C1: the callback saves the checkpoint of round t exactly when
\* checkpoint_interval > 0 and t % checkpoint_interval = 0, whatever the
\* rounds before it did: of the rounds run so far, the ones saved (each once)
\* are exactly the ones the rule names.
C1_CheckpointRule ==
    \A t \in 0..(round_num - 1) :
        IF checkpoint_interval > 0 /\ t % checkpoint_interval = 0
        THEN TimesSaved(Format05d(t)) = 1
        ELSE ~Saved(Format05d(t))

C1_Witness ==
    /\ checkpoint_interval = 2
    /\ round_num = 3
    /\ saves = <<Format05d(0), Format05d(2)>>

\* C2: once trainer.train has returned and line 269 has run, "final" is saved
\* iff checkpoint_interval >= 0, and it is never saved earlier; with interval 0
\* a completed run has written "final" and nothing else; with a negative
\* interval no state of any run has a checkpoint.
C2_FinalCheckpoint ==
    /\ FinalDecided => (Saved(STR_final) <=> checkpoint_interval >= 0)
    /\ Saved(STR_final) => FinalDecided
    /\ (FinalDecided /\ checkpoint_interval = 0) => saves = <<STR_final>>
    /\ checkpoint_interval < 0 => saves = <<>>

C2_Witness ==
    /\ pc = "done"
    /\ checkpoint_interval = 0
    /\ n_rounds = MaxRounds
    /\ saves = <<STR_final>>

ConfigErrors ==
    { "ValueError:gen_batch_size", "ValueError:algorithm_kwargs",
      "TypeError:multiple_values", "ValueError:algorithm" }

WritesFiles == { "logger.configure", "os.makedirs", "build_sacred_symlink" }

\* C3: a run that ends with a configuration error has created no environment
\* and written no file or directory.
C3_ConfigErrorsBeforeEffects ==
    error \in ConfigErrors =>
        /\ venv = "none"
        /\ ~Called("make_vec_env")
        /\ \A e \in WritesFiles : ~Called(e)
        /\ saves = <<>>

\* C4: with n_expert_demos greater than the number of trajectories loaded, no
\* trainer is constructed, no round is run and no checkpoint is written, the
\* load ends the run with the ValueError of line 176; a trainer is never
\* given fewer trajectories than n_expert_demos.
C4_InsufficientDemos ==
    /\ (n_expert_demos # <<>> /\ n_expert_demos[1] > Len(stored_trajs)) =>
          /\ trainer = "none" /\ ~Called("algo_cls")
          /\ round_num = 0
          /\ saves = <<>>
          /\ venv = "none"
          /\ Called("types.load") =>
                (pc = "failed" /\ error = "ValueError:n_expert_demos")
    /\ (trainer # "none" /\ n_expert_demos # <<>>) =>
          Len(expert_trajs) >= n_expert_demos[1]

C4_Witness ==
    /\ n_expert_demos = <<MaxTrajs + 1>>
    /\ Len(stored_trajs) = MaxTrajs
    /\ error = "ValueError:n_expert_demos"

\* the variant mapping of the algorithm the (case-insensitive) selection names
SelectedVariant == get(algorithm_kwargs, lower(algorithm))

SharedAndVariant == Keys(get(algorithm_kwargs, STR_shared)) \cap Keys(SelectedVariant)

\* C5: for an algorithm the selection accepts, once lines 222-227 have run: if
\* "shared" and the selected variant mapping have a key in common, the run has
\* failed there and the error names every common key.
C5_ConflictAlwaysFails ==
    (Called("init_rl") /\ pc # "merge" /\ lower(algorithm) \in {STR_gail, STR_airl}) =>
        (SharedAndVariant # {} =>
            /\ error = "TypeError:multiple_values"
            /\ error_keys = SharedAndVariant)

\* C6: a trainer is GAIL only for a casing of "gail" and AIRL only for a
\* casing of "airl"; with any other algorithm string, a run whose other
\* arguments passed lines 158-181 ends with the ValueError of line 243 and
\* constructs no trainer.
C6_CaseInsensitiveSelection ==
    /\ trainer = "GAIL" => lower(algorithm) = STR_gail
    /\ trainer = "AIRL" => lower(algorithm) = STR_airl
    /\ (lower(algorithm) \notin {STR_gail, STR_airl} /\ Called("init_rl")) =>
          /\ trainer = "none"
          /\ pc \in {"merge", "select", "failed"}
          /\ pc = "failed" => error = "ValueError:algorithm"

\* C7: with gen_batch_size % num_vec # 0 the run is either still at line 158
\* or has failed there with the ValueError of line 159, and nothing else has
\* happened: no call with an outside effect, no environment, no trajectory
\* loaded, no round, no checkpoint.
C7_BatchCheckFirst ==
    gen_batch_size % num_vec # 0 =>
        /\ pc = "check_batch" \/ (pc = "failed" /\ error = "ValueError:gen_batch_size")
        /\ events = <<>>
        /\ venv = "none"
        /\ expert_trajs = <<>>
        /\ trainer = "none" /\ round_num = 0 /\ saves = <<>>

C7_Witness ==
    /\ error = "ValueError:gen_batch_size"
    /\ STR_ppo \in DOMAIN algorithm_kwargs
    /\ ~rollout_exists

\* C8: once line 158 has passed and lines 163-168 have run: if
\* algorithm_kwargs has a key other than "shared", "gail", "airl", the run has
\* failed with the ValueError of line 165 before touching rollout_path,
\* whatever the algorithm; otherwise that error is not raised.
C8_UnsupportedKey ==
    (gen_batch_size % num_vec = 0 /\ pc \notin {"check_batch", "check_keys"}) =>
        IF \E k \in DOMAIN algorithm_kwargs : k \notin {STR_shared, STR_gail, STR_airl}
        THEN /\ pc = "failed" /\ error = "ValueError:algorithm_kwargs"
             /\ events = <<>>
             /\ expert_trajs = <<>>
        ELSE error # "ValueError:algorithm_kwargs"

C8_Witness ==
    /\ error = "ValueError:algorithm_kwargs"
    /\ lower(algorithm) = STR_airl
    /\ STR_ppo \in DOMAIN algorithm_kwargs

\* C9: when rollout_path does not exist, the run that reaches line 170 fails
\* there with FileNotFoundError: the path is looked at once, nothing is loaded
\* (expert_trajs is never set, not even to an empty list), no trainer is
\* constructed and no round runs.
C9_MissingRolloutPath ==
    (~rollout_exists /\ Called("os.path.exists")) =>
        /\ pc = "failed" /\ error = "FileNotFoundError:rollout_path"
        /\ events = <<"os.path.exists">>
        /\ expert_trajs = <<>>
        /\ trainer = "none" /\ round_num = 0 /\ saves = <<>>

C9_Witness ==
    /\ ~rollout_exists
    /\ error = "FileNotFoundError:rollout_path"
    /\ Len(stored_trajs) > 0

\* C10: after lines 173-181 have passed, with n_expert_demos = n and
\* 0 <= n <= len(loaded), expert_trajs is the first n loaded trajectories in
\* their order (n of them, the i-th being the i-th loaded); with None it is
\* all of them; limiting expert_trajs again changes nothing.
C10_LimitTo ==
    Called("logger.configure") =>
        /\ n_expert_demos = <<>> => expert_trajs = stored_trajs
        /\ (/\ n_expert_demos # <<>>
            /\ n_expert_demos[1] >= 0
            /\ n_expert_demos[1] <= Len(stored_trajs)) =>
              /\ Len(expert_trajs) = n_expert_demos[1]
              /\ \A i \in 1..n_expert_demos[1] : expert_trajs[i] = stored_trajs[i]
              /\ LimitTo(expert_trajs, n_expert_demos) = expert_trajs

C10_Witness ==
    /\ pc = "done"
    /\ n_expert_demos = <<1>>
    /\ stored_trajs = <<2, 1>>
    /\ expert_trajs = <<2>>

\* the phase of the run a statement belongs to; lines 183-260 prepare the
\* trainer and are counted with the training they lead to
Phase(p) ==
    CASE p \in {"check_batch", "check_keys"} -> "configuring"
      [] p \in {"check_path", "load"} -> "collecting_demonstrations"
      [] p \in {"setup", "merge", "select", "construct", "train", "save_final"} ->
            "training"
      [] p \in {"evaluate", "close"} -> "evaluating"
      [] p = "done" -> "done"
      [] OTHER -> "failed"

PhaseRank(p) ==
    CASE Phase(p) = "configuring" -> 1
      [] Phase(p) = "collecting_demonstrations" -> 2
      [] Phase(p) = "training" -> 3
      [] Phase(p) = "evaluating" -> 4
      [] Phase(p) = "done" -> 5
      [] OTHER -> 6

C11_Milestones ==
    /\ (trainer # "none" \/ round_num > 0 \/ PhaseRank(pc) \in 3..5) =>
          /\ Called("types.load")
          /\ expert_trajs = LimitTo(stored_trajs, n_expert_demos)
    /\ Called("generate_trajectories") =>
          /\ trainer # "none"
          /\ round_num = n_rounds
          /\ Saved(STR_final) <=> checkpoint_interval >= 0
    /\ results # {} => Called("generate_trajectories")
    /\ pc = "done" =>
          /\ results = {"expert_stats", "imit_stats"}
          /\ venv = "closed"

\* C11: a step of the run stays in its phase, moves to the next phase of
\* configuring, collecting_demonstrations, training, evaluating, done, or
\* fails; a trainer exists and rounds run only after the demonstrations are
\* loaded and truncated; the evaluation rollouts are sampled only after the
\* last round and the decision of line 269; the run is done only with both
\* reports, after the evaluation.
C11_PhaseOrder ==
    /\ []C11_Milestones
    /\ [][\/ pc' = "failed"
          \/ PhaseRank(pc') = PhaseRank(pc)
          \/ PhaseRank(pc') = PhaseRank(pc) + 1]_vars

C11_Witness ==
    /\ pc = "done"
    /\ results = {"expert_stats", "imit_stats"}
    /\ round_num = MaxRounds
    /\ n_expert_demos = <<MaxTrajs>>
    /\ Saved(STR_final)

\* C12: the run has an error exactly when it is in the state failed; a failed
\* run takes no further step (no round, no save, no evaluation, no return),
\* has no result, and no call with an outside effect was made twice.
C12_FailedIsTerminal ==
    /\ [](error # "none" <=> pc = "failed")
    /\ [](pc = "failed" => results = {})
    /\ [](\A i, j \in DOMAIN events : events[i] = events[j] => i = j)
    /\ [][pc # "failed"]_vars

C12_Witness ==
    /\ pc = "failed"
    /\ error = "Exception:evaluate"
    /\ Saved(STR_final)
    /\ round_num = MaxRounds

\* the checkpoints the callback wrote in the rounds before round r
RECURSIVE RoundSaves(_, _)
RoundSaves(interval, r) ==
    IF r = 0 THEN <<>>
    ELSE RoundSaves(interval, r - 1) \o
            (IF interval > 0 /\ (r - 1) % interval = 0
             THEN <<Format05d(r - 1)>> ELSE <<>>)

\* C13: when trainer.train fails in round r, the run is failed at once with
\* the checkpoints of the rounds before r all there, each written once, in
\* their own directories; "final" is not saved and nothing is evaluated; no
\* step ever takes an entry out of the checkpoints written, and a failing
\* step writes none.
C13_TrainFailure ==
    /\ [](error = "Exception:train" =>
            /\ pc = "failed"
            /\ saves = RoundSaves(checkpoint_interval, round_num)
            /\ \A i, j \in DOMAIN saves : saves[i] = saves[j] => i = j
            /\ ~Saved(STR_final)
            /\ ~Called("generate_trajectories")
            /\ results = {})
    /\ [][/\ Len(saves') >= Len(saves)
          /\ SubSeq(saves', 1, Len(saves)) = saves
          /\ pc' = "failed" => saves' = saves]_vars

C13_Witness ==
    /\ error = "Exception:train"
    /\ round_num = 2
    /\ saves = <<Format05d(0), Format05d(1)>>

\* C19: for an algorithm the selection accepts, once lines 222-227 have run
\* with "shared" and the selected variant mapping (either of them empty when
\* absent) having no key in common: the merge has not failed, the merged
\* kwargs hold exactly the items of the two mappings, and merging them in the
\* other order gives the same items.
C19_MergeIsUnion ==
    (/\ Called("init_rl") /\ pc # "merge"
     /\ lower(algorithm) \in {STR_gail, STR_airl}
     /\ SharedAndVariant = {}) =>
        /\ error # "TypeError:multiple_values"
        /\ Items(final_algorithm_kwargs) =
              Items(get(algorithm_kwargs, STR_shared)) \cup Items(SelectedVariant)
        /\ Items(DictMerge(SelectedVariant, get(algorithm_kwargs, STR_shared)).value) =
              Items(final_algorithm_kwargs)

\* C20: the trainer constructed gets, among its keyword arguments, every item
\* of the mapping algorithm_kwargs holds for its own class: "gail" for GAIL,
\* "airl" for AIRL.
C20_VariantKwargsPassed ==
    /\ trainer = "GAIL" =>
          Items(get(algorithm_kwargs, STR_gail)) \subseteq Items(final_algorithm_kwargs)
    /\ trainer = "AIRL" =>
          Items(get(algorithm_kwargs, STR_airl)) \subseteq Items(final_algorithm_kwargs)

EdCalled(e) == \E i \in DOMAIN ed_events : ed_events[i] = e

EdSaved(path) == \E i \in DOMAIN ed_saved : ed_saved[i] = path

\* rollouts_and_policy is past its final saves
EdFinalDecided ==
    ed_script = "rollouts_and_policy" /\ ed_pc \in {"evaluate", "return", "done"}

\* C14 as stated: in both scripts a run whose training has completed has made
\* the final save iff its interval is not negative.
C14_SameFinalRule ==
    /\ FinalDecided => (Saved(STR_final) <=> checkpoint_interval >= 0)
    /\ EdFinalDecided => (EdSaved("policies/final") <=> policy_save_interval >= 0)

\* C14, amended: train_adversarial has saved "final" after training iff
\* checkpoint_interval >= 0; rollouts_and_policy has saved the final policy
\* iff policy_save_final and the final rollouts iff rollout_save_final,
\* whatever policy_save_interval is, and saves neither before training is over.
C14_FinalSaves ==
    /\ FinalDecided => (Saved(STR_final) <=> checkpoint_interval >= 0)
    /\ EdFinalDecided =>
          /\ EdSaved("policies/final") <=> policy_save_final
          /\ EdSaved("rollouts/final.pkl") <=> rollout_save_final
    /\ ed_saved # <<>> => EdCalled("policy.learn")

C14_Witness ==
    /\ pc = "done"
    /\ checkpoint_interval = -1
    /\ saves = <<>>
    /\ ed_pc = "done"
    /\ policy_save_interval = -1
    /\ EdSaved("policies/final")

\* C15: in rollouts_and_policy the callbacks given to policy.learn hold the
\* policy-saving callback iff policy_save_interval > 0; nothing is saved
\* before policy.learn has returned; when the final evaluation starts, the
\* final rollouts are saved iff rollout_save_final and the final policy iff
\* policy_save_final, and nothing is saved after that.
C15_SavesAfterTraining ==
    ed_script = "rollouts_and_policy" =>
        /\ (ed_pc = "learn" \/ EdCalled("policy.learn")) =>
              ((\E i \in DOMAIN callback_objs : callback_objs[i] = "save_policy_callback")
                  <=> policy_save_interval > 0)
        /\ ed_saved # <<>> =>
              /\ EdCalled("policy.learn")
              /\ ed_pc \in {"save_policy", "evaluate", "return", "done"}
        /\ (ed_pc = "evaluate" \/ EdCalled("rollout.generate_trajectories")) =>
              /\ EdSaved("rollouts/final.pkl") <=> rollout_save_final
              /\ EdSaved("policies/final") <=> policy_save_final
              /\ Len(ed_saved) <= 2

C15_Witness ==
    /\ ed_pc = "done"
    /\ policy_save_interval = 0
    /\ callback_objs = <<"log_callback">>
    /\ ~rollout_save_final
    /\ ed_saved = <<"policies/final">>

\* C16: in both functions, once the stopping criterion has been asked for with
\* both counts or with neither, the call has failed with the ValueError and
\* has made no call with an outside effect (no directory, no symlink, no
\* environment).
C16_SampleUntilFailsFirst ==
    (/\ ed_pc \notin {"makedirs", "sample_until"}
     /\ (rollout_save_n_timesteps = <<>>) = (rollout_save_n_episodes = <<>>)) =>
        /\ ed_pc = "failed"
        /\ ed_error = "ValueError:make_sample_until"
        /\ ed_events = <<>>

Returned(kind) == gt_pc = "returned" /\ gt_sample_until.kind = kind

\* every trajectory holds all the transitions of its episode
Whole(trajs) == \A j \in DOMAIN trajs : trajs[j].len = trajs[j].steps

\* trajs without its last k trajectories
DropLast(trajs, k) == SubSeq(trajs, 1, Max(Len(trajs) - k, 0))

\* the environments and the criterion of the end-to-end example
StubExample ==
    /\ fixed_horizon
    /\ max_episode_steps = StubEpisodeSteps
    /\ gt_sample_until = [kind |-> "min_timesteps", n |-> StubMinTimesteps]

C18_CountBounds ==
    Returned("min_episodes") =>
        /\ Len(trajectories) >= gt_sample_until.n
        /\ Len(trajectories) < gt_sample_until.n + num_vec

RECURSIVE ParseDecimal(_)
\* int(name) for a name of decimal digits
ParseDecimal(name) ==
    IF name = <<>> THEN 0
    ELSE 10 * ParseDecimal(SubSeq(name, 1, Len(name) - 1))
         + (CHOOSE d \in 0..9 : DigitChars[d + 1] = name[Len(name)])

IsDigits(name) ==
    \A i \in DOMAIN name : \E d \in 1..10 : DigitChars[d] = name[i]

\* C21: every directory save() has written under checkpoints/ is either
\* "final" or the decimal digits of a round already run at which the interval
\* asks for a checkpoint, zero-padded to at least 5 characters (exactly 5
\* below round 100000); the round directories were written in increasing
\* order of their round, "final" comes last, and no directory was written
\* twice.
C21_NoOverwrite ==
    /\ \A i \in DOMAIN saves :
          \/ saves[i] = STR_final /\ i = Len(saves) /\ pc \notin {"train", "save_final"}
          \/ /\ IsDigits(saves[i])
             /\ Len(saves[i]) >= PadWidth
             /\ ParseDecimal(saves[i]) < Pow10(PadWidth) => Len(saves[i]) = PadWidth
             /\ Format05d(ParseDecimal(saves[i])) = saves[i]
             /\ ParseDecimal(saves[i]) < round_num
             /\ ShouldCheckpoint(checkpoint_interval, ParseDecimal(saves[i]))
             /\ \A j \in DOMAIN saves :
                   (j < i /\ saves[j] # STR_final) =>
                       ParseDecimal(saves[j]) < ParseDecimal(saves[i])
    /\ \A i, j \in DOMAIN saves : i # j => saves[i] # saves[j]

C21_Witness ==
    /\ pc = "evaluate"
    /\ Saved(Format05d(0))
    /\ Saved(Format05d(Pow10(PadWidth) - 1))
    /\ Saved(<<"1", "0", "0", "0", "0", "0">>)
    /\ Saved(STR_final)

====
